---- MODULE Spec2Model ----
(***************************************************************************)
(* The upload job scheduler of the V-UPLOAD backend (src/unnamed/part_000): *)
(* the Video table, the schedule/delete routes, initDB with its reset of   *)
(* stuck uploads, and the 15 s setInterval loop, whose awaited store calls *)
(* are separate steps that interleave with other ticks and requests.       *)
(***************************************************************************)
EXTENDS Integers, FiniteSets, Sequences, TLC

\* ---- bounds of the model
MaxJobs == 2          \* rows the Video table may ever hold (ids 1..MaxJobs)
MaxTime == 1          \* the clock and the scheduledTime values run over 0..MaxTime
MaxTicks == 2         \* interval callbacks that may be in flight together
MaxRestarts == 1      \* crashes followed by a process start
MaxFaults == 1        \* store calls that reject (store unreachable)
MaxRequests == 4      \* favorite requests the server may ever handle

JobIds == 1..MaxJobs
Times == 0..MaxTime
Ticks == 1..MaxTicks

\* ---- values
NULL == "null"
NoId == 0
RestartError == "Server restarted during upload"
UploadError == "upload failed"

VARIABLES
    videos,     \* the Video table: id -> row
    now,        \* the server clock (new Date())
    initPc,     \* where initDB of the running process stands
    ticks,      \* the interval callbacks in flight: slot -> position and instance
    restarts,   \* process starts after a crash so far
    faults,     \* store calls that rejected so far
    called,     \* the adapter's log: the jobs processUpload was called for
    app,        \* the client (App.jsx): form, modal, request being built, clock
    suggested,  \* the filenames generateMetadata was called for
    favorites,  \* the Favorite table: its rows in insertion order
    favRes      \* the response to the latest favorite request, with its number

vars == <<videos, now, initPc, ticks, restarts, faults, called, app, suggested, favorites, favRes>>

\* A row never created, and a row removed by Video.destroy.
AbsentRow == [status |-> "Absent", scheduledTime |-> 0, youtubeId |-> NoId, error |-> NULL]
DeletedRow == [status |-> "Deleted", scheduledTime |-> 0, youtubeId |-> NoId, error |-> NULL]

\* Video.create / Video.bulkCreate of a request built by the client: status takes
\* the column default, youtubeId and error are not set.
NewRow(tm) == [status |-> "Pending", scheduledTime |-> tm, youtubeId |-> NoId, error |-> NULL]

\* No callback running in the slot.
IdleTick ==
    [pc |-> "idle", id |-> 0, status |-> NULL, scheduledTime |-> 0,
     youtubeId |-> NoId, error |-> NULL, prevYoutubeId |-> NoId, prevError |-> NULL,
     calls |-> << >>]

Exists(v, j) == v[j].status \notin {"Absent", "Deleted"}

\* The id the next inserted row gets (ids are never reused).
NextId(v) ==
    IF \E j \in JobIds : v[j].status = "Absent"
    THEN CHOOSE j \in JobIds : v[j].status = "Absent" /\ \A k \in 1..(j - 1) : v[k].status # "Absent"
    ELSE MaxJobs + 1

\* Video.findOne({ where: { status: 'Uploading' } }): the rows it may return.
ActiveJobs(v) == {j \in JobIds : v[j].status = "Uploading"}

\* (mutant) the query without its scheduledTime condition.
PendingAnyTime(v, t) == {j \in JobIds : v[j].status = "Pending"}

\* where: { status: 'Pending', scheduledTime: { lte: new Date() } }
DuePending(v, t) == {j \in JobIds : v[j].status = "Pending" /\ v[j].scheduledTime <= t}

\* (mutant) findOne without the order clause: any due Pending row.
AnyDuePending(v, t) == {j \in JobIds : v[j].status = "Pending" /\ v[j].scheduledTime <= t}

\* order: [['scheduledTime', 'ASC']] with findOne: a row of least scheduledTime
\* (the store breaks ties as it likes).
Earliest(v, t) ==
    {j \in DuePending(v, t) : \A k \in DuePending(v, t) : v[j].scheduledTime <= v[k].scheduledTime}

\* (mutant) the reset without its where clause.
ResetStuckAll(v) ==
    [j \in JobIds |->
        IF v[j].status \notin {"Absent", "Deleted"}
        THEN [v[j] EXCEPT !.status = "Pending", !.error = RestartError]
        ELSE v[j]]

\* (mutant) the reset without the diagnostic.
ResetStuckNoError(v) ==
    [j \in JobIds |->
        IF v[j].status = "Uploading" THEN [v[j] EXCEPT !.status = "Pending"] ELSE v[j]]

\* Video.update({status:'Pending', error:...}, {where:{status:'Uploading'}})
ResetStuck(v) ==
    [j \in JobIds |->
        IF v[j].status = "Uploading"
        THEN [v[j] EXCEPT !.status = "Pending", !.error = RestartError]
        ELSE v[j]]

\* The id processUpload returns for the call made by slot t for job j: opaque to
\* the scheduler, distinct for distinct calls in flight.
YoutubeIdOf(j, t) == MaxTicks * (j - 1) + t

\* ---- the client's dates and strings (src/src/App.jsx)

MaxDays == 2          \* weekdays the form may hold selected
MaxTimes == 2         \* entries the form's list of times may hold
MaxDrift == 1         \* seconds that may pass between two readings of the clock

\* A Date is its time value in seconds from Sunday 1 January 2023 00:00:00 of
\* the browser's zone (taken as UTC, no daylight saving); milliseconds are
\* folded into the seconds. An invalid Date has the time value NaN.
NaN == -1
SecPerMin == 60
MinPerHour == 60
HoursPerDay == 24
SecPerDay == HoursPerDay * MinPerHour * SecPerMin
DaysPerWeek == 7
FirstWeekday == 0
MonthDays == <<31, 28, 31, 30>>

At(day, h, m, s) == ((day * HoursPerDay + h) * MinPerHour + m) * SecPerMin + s

\* The instants the client's clock shows: Sunday noon on the minute, Monday
\* 08:00, Tuesday 10:00, the last second of January and the first of February.
ClockValues == {At(0, 12, 0, 0), At(1, 8, 0, 0), At(2, 10, 0, 0),
                At(30, 23, 59, 59), At(31, 0, 0, 0)}

\* What a later new Date() of the same handler run may read.
Readings(t) == {c \in ClockValues : t <= c /\ c <= t + MaxDrift}

RECURSIVE MonthStart(_)
MonthStart(m) == IF m = 1 THEN 0 ELSE MonthStart(m - 1) + MonthDays[m - 1]

DayOf(d) == d \div SecPerDay
MonthOf(n) ==
    CHOOSE m \in 1..Len(MonthDays) : MonthStart(m) <= n /\ n < MonthStart(m) + MonthDays[m]

\* Date.prototype.getDay, getDate, setDate, setHours
GetDay(d) == (DayOf(d) + FirstWeekday) % DaysPerWeek
GetDate(d) == DayOf(d) - MonthStart(MonthOf(DayOf(d))) + 1
SetDate(d, dayOfMonth) ==
    IF d = NaN THEN NaN
    ELSE (MonthStart(MonthOf(DayOf(d))) + dayOfMonth - 1) * SecPerDay + (d % SecPerDay)
SetHours(d, hours, minutes, seconds) ==
    IF d = NaN \/ hours = NaN \/ minutes = NaN THEN NaN
    ELSE At(DayOf(d), hours, minutes, seconds)

\* date <= now and date > now of two Dates: false when either is invalid
DateLt(a, b) == a # NaN /\ b # NaN /\ a < b
DateLeq(a, b) == a # NaN /\ b # NaN /\ a <= b
DateGt(a, b) == a # NaN /\ b # NaN /\ a > b

\* Strings are sequences of characters.
Digits == <<"0", "1", "2", "3", "4", "5", "6", "7", "8", "9">>
IsDigit(c) == \E k \in 1..Len(Digits) : Digits[k] = c
DigitVal(c) == (CHOOSE k \in 1..Len(Digits) : Digits[k] = c) - 1
UndefinedStr == <<"u", "n", "d", "e", "f", "i", "n", "e", "d">>
DefaultTime == <<"1", "2", ":", "0", "0">>

\* String.prototype.split
RECURSIVE Split(_, _)
Split(s, sep) ==
    IF \E i \in 1..Len(s) : s[i] = sep
    THEN LET i == CHOOSE k \in 1..Len(s) : s[k] = sep /\ \A m \in 1..(k - 1) : s[m] # sep
         IN <<SubSeq(s, 1, i - 1)>> \o Split(SubSeq(s, i + 1, Len(s)), sep)
    ELSE <<s>>

\* const [hours, minutes] = ...: a missing element is undefined
Item(parts, i) == IF i <= Len(parts) THEN parts[i] ELSE UndefinedStr

\* parseInt: the leading decimal digits, NaN when there is none
RECURSIVE ParseDigits(_, _)
ParseDigits(s, acc) ==
    IF s = << >> \/ ~IsDigit(Head(s)) THEN acc
    ELSE ParseDigits(Tail(s), 10 * acc + DigitVal(Head(s)))
ParseInt(s) == IF s = << >> \/ ~IsDigit(Head(s)) THEN NaN ELSE ParseDigits(s, 0)

\* new Date(...).toISOString().slice(11, 16)
IsoHHMM(d) ==
    LET h == (d % SecPerDay) \div (MinPerHour * SecPerMin)
        m == (d % (MinPerHour * SecPerMin)) \div SecPerMin
    IN <<Digits[(h \div 10) + 1], Digits[(h % 10) + 1], ":",
         Digits[(m \div 10) + 1], Digits[(m % 10) + 1]>>

\* What the time input of the form can hand to updateTime: '' for a cleared
\* field, else HH:MM.
TimeInputs == {<< >>, <<"0", "9", ":", "0", "0">>, <<"0", "0", ":", "0", "0">>}
\* The weekday buttons pressed in the model (WEEK_DAYS holds 0..6).
DayInputs == {0, 1, 3}

\* submitSchedule, body of the inner forEach: the date of the same week, then
\* the date pushed
Candidate(dayIndex, timeStr, nowD, dateD) ==
    LET parts == Split(timeStr, ":")
        hours == Item(parts, 1)
        minutes == Item(parts, 2)
        diff0 == dayIndex - GetDay(nowD)
        diff == IF diff0 < 0 THEN diff0 + DaysPerWeek ELSE diff0
    IN SetHours(SetDate(dateD, GetDate(nowD) + diff), ParseInt(hours), ParseInt(minutes), 0)

ScheduledTime(dayIndex, timeStr, nowD, dateD) ==
    LET date == Candidate(dayIndex, timeStr, nowD, dateD)
    IN IF DateLeq(date, nowD) THEN SetDate(date, GetDate(date) + DaysPerWeek) ELSE date

\* The readings of the clock by the iterations of one run: the first k read
\* nowD, the following ones read later.
ReadsAt(nowD, later, k) == [i \in 1..(MaxDays * MaxTimes) |-> IF i <= k THEN nowD ELSE later]

\* formData.times.forEach(...) and formData.days.forEach(...) with schedules.push
RECURSIVE PushTimes(_, _, _, _, _, _)
PushTimes(schedules, dayIndex, times, i, nowD, reads) ==
    IF i > Len(times) THEN schedules
    ELSE PushTimes(
            Append(schedules,
                   [scheduledTime |->
                        ScheduledTime(dayIndex, times[i], nowD, reads[Len(schedules) + 1])]),
            dayIndex, times, i + 1, nowD, reads)

RECURSIVE PushDays(_, _, _, _, _, _)
PushDays(schedules, days, times, d, nowD, reads) ==
    IF d > Len(days) THEN schedules
    ELSE PushDays(PushTimes(schedules, days[d], times, 1, nowD, reads),
                  days, times, d + 1, nowD, reads)

BuildSchedules(days, times, nowD, reads) == PushDays(<< >>, days, times, 1, nowD, reads)

\* ---- the metadata suggestion (generateMetadata and its route)

FileName == "clip.mp4"
DefaultDescription == "Uploaded via V-UPLOAD AI"
NoMetadata == [title |-> "", description |-> "", tags |-> << >>, hashtags |-> << >>]

\* What the generative call can do: answer JSON that parses, reject, or answer
\* text that JSON.parse throws on.
Outcomes == {"generated", "callFailed", "parseFailed"}

\* The object the parsed answer gives for a filename.
Generated(filename) ==
    [title |-> "AI title", description |-> "AI description",
     tags |-> <<"tag1", "tag2">>, hashtags |-> <<"#h1", "#h2">>]

\* The object returned by the catch.
Fallback(filename) ==
    [title |-> filename, description |-> DefaultDescription,
     tags |-> <<"automation", "uploader">>, hashtags |-> <<"#VUpload", "#Automation">>]

\* The try block of generateMetadata: returns, or throws.
TryGenerate(filename, outcome) ==
    IF outcome = "generated"
    THEN [threw |-> FALSE, failed |-> FALSE, value |-> Generated(filename)]
    ELSE [threw |-> TRUE, failed |-> TRUE, value |-> NoMetadata]

\* generateMetadata with a catch that throws the error on
GenerateMetadataRethrow(filename, outcome) == TryGenerate(filename, outcome)

\* generateMetadata
GenerateMetadata(filename, outcome) ==
    IF TryGenerate(filename, outcome).threw
    THEN [threw |-> FALSE, failed |-> TRUE, value |-> Fallback(filename)]
    ELSE TryGenerate(filename, outcome)

\* GET /api/metadata/suggest
SuggestRoute(filename, outcome) ==
    IF GenerateMetadata(filename, outcome).threw
    THEN [status |-> 500, failed |-> TRUE, data |-> NoMetadata]
    ELSE [status |-> 200,
          failed |-> GenerateMetadata(filename, outcome).failed,
          data |-> GenerateMetadata(filename, outcome).value]

\* What axios.get of the suggestion ends with: no response at all, or the
\* route's response for one of the outcomes.
Replies == {"rejected"} \cup Outcomes
NoResponse == [status |-> 0, failed |-> FALSE, data |-> NoMetadata]

\* useState of App: the form as created, no modal, nothing loading
AppInit ==
    [formData |-> [title |-> "", description |-> "", days |-> << >>,
                   times |-> <<IsoHHMM(At(0, 12, 0, 0) + MinPerHour * SecPerMin)>>],
     suggest |-> NoResponse,
     isModalOpen |-> FALSE,
     loading |-> FALSE,
     schedules |-> << >>,
     now |-> NaN,
     dates |-> << >>,
     toast |-> "",
     clock |-> At(0, 12, 0, 0),
     favorites |-> << >>]

\* ---- favorites: the files of the library, and the state before any request
FileIds == {"fileA", "fileB"}
NoFavRes == [n |-> 0, op |-> NULL, id |-> NULL, status |-> 0]

Init ==
    /\ videos = [j \in JobIds |-> AbsentRow]
    /\ now = 0
    /\ initPc = "sync"
    /\ ticks = [t \in Ticks |-> IdleTick]
    /\ restarts = 0
    /\ faults = 0
    /\ called = {}
    /\ app = AppInit
    /\ suggested = {}
    /\ favorites = << >>
    /\ favRes = NoFavRes

\* ---- requests

\* POST /api/schedule
Schedule(tm) ==
    /\ NextId(videos) <= MaxJobs
    /\ videos' = [videos EXCEPT ![NextId(videos)] = NewRow(tm)]
    /\ UNCHANGED <<now, initPc, ticks, restarts, faults, called, app, suggested, favorites, favRes>>

\* POST /api/schedule/bulk with the two schedules tm1, tm2
ScheduleBulk(tm1, tm2) ==
    /\ NextId(videos) + 1 <= MaxJobs
    /\ videos' = [videos EXCEPT ![NextId(videos)] = NewRow(tm1),
                                ![NextId(videos) + 1] = NewRow(tm2)]
    /\ UNCHANGED <<now, initPc, ticks, restarts, faults, called, app, suggested, favorites, favRes>>

\* (mutant) destroy without the status condition.
DestroyAnyStatus(v, j) ==
    [videos |-> IF Exists(v, j) THEN [v EXCEPT ![j] = DeletedRow] ELSE v,
     response |-> "success"]

\* await Video.destroy({ where: { id, status: 'Pending' } }); res.json({ success: true }):
\* the table after the request and the response.
Destroy(v, j) ==
    [videos |-> IF v[j].status = "Pending" THEN [v EXCEPT ![j] = DeletedRow] ELSE v,
     response |-> "success"]

\* DELETE /api/schedule/:id
DeleteJob(j) ==
    /\ videos' = Destroy(videos, j).videos
    /\ UNCHANGED <<now, initPc, ticks, restarts, faults, called, app, suggested, favorites, favRes>>

\* ---- the clock
Advance ==
    /\ now < MaxTime
    /\ now' = now + 1
    /\ UNCHANGED <<videos, initPc, ticks, restarts, faults, called, app, suggested, favorites, favRes>>

\* ---- the process

\* The process dies (its callbacks and the uploads they wait for with it) and is
\* started again: initDB() is called, the interval is armed.
Restart ==
    /\ restarts < MaxRestarts
    /\ restarts' = restarts + 1
    /\ initPc' = "sync"
    /\ ticks' = [t \in Ticks |-> IdleTick]
    /\ UNCHANGED <<videos, now, faults, called, app, suggested, favorites, favRes>>

\* await sequelize.authenticate(); await sequelize.sync({ alter: true }); the
\* update of the stuck rows is issued.
InitSync ==
    /\ initPc = "sync"
    /\ initPc' = "update"
    /\ UNCHANGED <<videos, now, ticks, restarts, faults, called, app, suggested, favorites, favRes>>

\* The update resolves: every Uploading row is Pending again.
InitUpdate ==
    /\ initPc = "update"
    /\ videos' = ResetStuck(videos)
    /\ initPc' = "done"
    /\ UNCHANGED <<now, ticks, restarts, faults, called, app, suggested, favorites, favRes>>

\* authenticate, sync or the update rejects: the catch logs and initDB ends.
InitFault ==
    /\ initPc \in {"sync", "update"}
    /\ faults < MaxFaults
    /\ faults' = faults + 1
    /\ initPc' = "failed"
    /\ UNCHANGED <<videos, now, ticks, restarts, called, app, suggested, favorites, favRes>>

\* ---- the scheduling loop, one action per awaited step

\* The slot a callback that starts now runs in: the lowest one that is free.
FreeSlot(t) == ticks[t].pc = "idle" /\ \A s \in 1..(t - 1) : ticks[s].pc # "idle"

\* (mutant) the callback without its check for an Uploading row.
TickFindActiveUnchecked(t) ==
    /\ FreeSlot(t)
    /\ ticks' = [ticks EXCEPT ![t] = [IdleTick EXCEPT !.pc = "findNext"]]
    /\ UNCHANGED <<videos, now, initPc, restarts, faults, called, app, suggested, favorites, favRes>>

\* The interval fires: const activeJob = await Video.findOne(...);
\* if (activeJob) return; else the query for the next job is issued.
TickFindActive(t) ==
    /\ FreeSlot(t)
    /\ ticks' = [ticks EXCEPT ![t] =
                    IF ActiveJobs(videos) # {} THEN IdleTick
                    ELSE [IdleTick EXCEPT !.pc = "findNext"]]
    /\ UNCHANGED <<videos, now, initPc, restarts, faults, called, app, suggested, favorites, favRes>>

\* const nextJob = await Video.findOne({due Pending, earliest}); if (nextJob) {...
\* nextJob.status = 'Uploading'; nextJob.save() is issued.
TickFindNext(t) ==
    /\ ticks[t].pc = "findNext"
    /\ \/ /\ Earliest(videos, now) = {}
          /\ ticks' = [ticks EXCEPT ![t] = IdleTick]
       \/ \E j \in Earliest(videos, now) :
            ticks' = [ticks EXCEPT ![t] =
                [pc |-> "saveUploading", id |-> j, status |-> "Uploading",
                 scheduledTime |-> videos[j].scheduledTime,
                 youtubeId |-> videos[j].youtubeId, error |-> videos[j].error,
                 prevYoutubeId |-> videos[j].youtubeId, prevError |-> videos[j].error,
                 calls |-> << >>]]
    /\ UNCHANGED <<videos, now, initPc, restarts, faults, called, app, suggested, favorites, favRes>>

\* await nextJob.save(): UPDATE ... SET status = 'Uploading' WHERE id = nextJob.id
\* (no row matched is no error); then processUpload(...) is called.
TickSaveUploading(t) ==
    /\ ticks[t].pc = "saveUploading"
    /\ videos' = IF Exists(videos, ticks[t].id)
                 THEN [videos EXCEPT ![ticks[t].id].status = "Uploading"]
                 ELSE videos
    /\ ticks' = [ticks EXCEPT ![t].pc = "processUpload"]
    /\ called' = called \cup {ticks[t].id}
    /\ UNCHANGED <<now, initPc, restarts, faults, app, suggested, favorites, favRes>>

\* ---- the upload adapter (processUpload)
NoTokensError == "No tokens found. Please connect Google account."
TagsError == "tags.slice is not a function"

\* One run of processUpload: what getStoredTokens returns (a bundle or null),
\* what the job's tags column parses to, how each remote call ends, and whether
\* the job carries a thumbnail and a first comment at all.
Runs ==
    [tokens : BOOLEAN, tags : {"list", "other"},
     download : {"ok", "fails"}, insert : {"ok", "fails"},
     thumbnail : {"absent", "ok", "fails"}, comment : {"absent", "ok", "fails"}]

\* The runs of a job with a tag list and neither thumbnail nor first comment,
\* with tokens stored and Drive reachable.
PlainRuns ==
    {run \in Runs : /\ run.tokens /\ run.tags = "list" /\ run.download = "ok"
                    /\ run.thumbnail = "absent" /\ run.comment = "absent"}

Threw(message, calls) == [threw |-> TRUE, message |-> message, value |-> NoId, calls |-> calls]

\* The Drive and YouTube calls made after the video insert resolved: each
\* optional step is called when its data is there, inside its own try/catch.
AfterInsert(run) ==
    (IF run.thumbnail = "absent" THEN << >> ELSE <<"thumbnails.set">>)
    \o (IF run.comment = "absent" THEN << >> ELSE <<"commentThreads.insert">>)

\* processUpload(...) of one run: whether it threw and with which message, the
\* video id it returned, and the Drive and YouTube calls it made, in order.
ProcessUpload(run, videoId) ==
    IF ~run.tokens THEN Threw(NoTokensError, << >>)
    ELSE IF run.download = "fails" THEN Threw(UploadError, <<"files.get">>)
    ELSE IF run.tags = "other" THEN Threw(TagsError, <<"files.get">>)
    ELSE IF run.insert = "fails" THEN Threw(UploadError, <<"files.get", "videos.insert">>)
    ELSE [threw |-> FALSE, message |-> NULL, value |-> videoId,
          calls |-> <<"files.get", "videos.insert">> \o AfterInsert(run)]

\* processUpload returns the video id, or throws; the instance is set in memory
\* and sendDiscordNotification(...) is called.
UploadStep(t, run) ==
    /\ ticks[t].pc = "processUpload"
    /\ LET res == ProcessUpload(run, YoutubeIdOf(ticks[t].id, t))
       IN  ticks' = IF res.threw
                    THEN [ticks EXCEPT ![t].pc = "notify",
                                       ![t].status = "Failed",
                                       ![t].error = res.message,
                                       ![t].calls = res.calls]
                    ELSE [ticks EXCEPT ![t].pc = "notify",
                                       ![t].status = "Done",
                                       ![t].youtubeId = res.value,
                                       ![t].error = NULL,
                                       ![t].calls = res.calls]
    /\ UNCHANGED <<videos, now, initPc, restarts, faults, called, app, suggested, favorites, favRes>>

\* The upload of a plain job: it returns the video id, or the insert throws.
TickProcessUpload(t) == \E run \in PlainRuns : UploadStep(t, run)

\* The upload of any job in any surroundings.
TickProcessUploadAny(t) == \E run \in Runs : UploadStep(t, run)

\* The columns the final save writes: those whose value differs from the one the
\* instance held after its previous save.
FinalWrite(row, tk) ==
    [row EXCEPT !.status = tk.status,
                !.youtubeId = IF tk.youtubeId # tk.prevYoutubeId THEN tk.youtubeId ELSE @,
                !.error = IF tk.error # tk.prevError THEN tk.error ELSE @]

\* (mutant) a webhook error that escapes sendDiscordNotification: the catch of
\* the upload records the job as Failed with the webhook's message.
AfterNotifyThrowing(tk, delivered) ==
    IF delivered THEN tk ELSE [tk EXCEPT !.status = "Failed", !.error = "webhook error"]

\* The instance after await sendDiscordNotification(...): the webhook post is
\* inside the function's own try/catch (and no webhook URL returns at once), so
\* the instance is the same whether or not the notification was delivered.
AfterNotify(tk, delivered) == tk

\* sendDiscordNotification resolves (it touches nothing shared), then
\* await nextJob.save() writes the final state and the callback ends.
TickSaveFinal(t) ==
    /\ ticks[t].pc = "notify"
    /\ \E delivered \in BOOLEAN :
         videos' = IF Exists(videos, ticks[t].id)
                   THEN [videos EXCEPT ![ticks[t].id] =
                            FinalWrite(@, AfterNotify(ticks[t], delivered))]
                   ELSE videos
    /\ ticks' = [ticks EXCEPT ![t] = IdleTick]
    /\ UNCHANGED <<now, initPc, restarts, faults, called, app, suggested, favorites, favRes>>

\* A store call of the callback rejects: the outer catch logs, the callback ends.
TickFault(t) ==
    /\ FreeSlot(t) \/ ticks[t].pc \in {"findNext", "saveUploading", "notify"}
    /\ faults < MaxFaults
    /\ faults' = faults + 1
    /\ ticks' = [ticks EXCEPT ![t] = IdleTick]
    /\ UNCHANGED <<videos, now, initPc, restarts, called, app, suggested, favorites, favRes>>

TickStep(t) ==
    \/ TickFindActive(t)
    \/ TickFindNext(t)
    \/ TickSaveUploading(t)
    \/ TickProcessUpload(t)
    \/ TickSaveFinal(t)

Next ==
    \/ \E tm \in Times : Schedule(tm)
    \/ \E tm1, tm2 \in Times : ScheduleBulk(tm1, tm2)
    \/ \E j \in JobIds : DeleteJob(j)
    \/ Advance
    \/ Restart
    \/ InitSync
    \/ InitUpdate
    \/ InitFault
    \/ \E t \in Ticks : TickFindActive(t)
    \/ \E t \in Ticks : TickFindNext(t)
    \/ \E t \in Ticks : TickSaveUploading(t)
    \/ \E t \in Ticks : TickProcessUpload(t)
    \/ \E t \in Ticks : TickSaveFinal(t)
    \/ \E t \in Ticks : TickFault(t)

Spec == Init /\ [][Next]_vars

\* ---- the loop with one callback at a time (store calls much faster than the
\* interval), under the scheduling the runtime guarantees: a pending await of
\* initDB or of the callback resolves, and the interval keeps firing.
FairNext ==
    \/ \E tm \in Times : Schedule(tm)
    \/ \E j \in JobIds : DeleteJob(j)
    \/ Advance
    \/ Restart
    \/ InitSync
    \/ InitUpdate
    \/ InitFault
    \/ TickStep(1)
    \/ TickFault(1)

Fairness ==
    /\ WF_vars(InitSync)
    /\ WF_vars(InitUpdate)
    /\ WF_vars(TickFindActive(1))
    /\ WF_vars(TickFindNext(1))
    /\ WF_vars(TickSaveUploading(1))
    /\ WF_vars(TickProcessUpload(1))
    /\ WF_vars(TickSaveFinal(1))

FairSpec == Init /\ [][FairNext]_vars /\ Fairness

\* ---- the loop with one callback at a time, uploading jobs of every shape in
\* every surroundings (tokens stored or not, each remote call ending either way).
UploadNext ==
    \/ \E tm \in Times : Schedule(tm)
    \/ Advance
    \/ InitSync
    \/ InitUpdate
    \/ TickFindActive(1)
    \/ TickFindNext(1)
    \/ TickSaveUploading(1)
    \/ TickProcessUploadAny(1)
    \/ TickSaveFinal(1)
    \/ TickFault(1)

UploadSpec == Init /\ [][UploadNext]_vars

\* ---- the client's handlers (src/src/App.jsx)

schedulerVars == <<videos, now, initPc, ticks, restarts, faults, called, favorites, favRes>>
serverVars == <<videos, now, initPc, ticks, restarts, faults, called, favorites, favRes, suggested>>

Includes(seq, x) == \E i \in 1..Len(seq) : seq[i] = x
RemoveAt(seq, idx) == SubSeq(seq, 1, idx - 1) \o SubSeq(seq, idx + 1, Len(seq))

\* Time passes in the browser.
ClientAdvance ==
    /\ \E c \in ClockValues :
        /\ c > app.clock
        /\ \A e \in ClockValues : e > app.clock => c <= e
        /\ app' = [app EXCEPT !.clock = c]
    /\ UNCHANGED serverVars

\* openScheduleModal with no catch and no finally: a failed request leaves the
\* form as it was and loading set
OpenScheduleModalBlocking(reply) ==
    /\ ~app.isModalOpen /\ ~app.loading
    /\ LET suggest == IF reply = "rejected" THEN NoResponse ELSE SuggestRoute(FileName, reply)
       IN app' = [app EXCEPT
            !.isModalOpen = TRUE,
            !.suggest = suggest,
            !.loading = suggest.status # 200,
            !.formData = IF suggest.status = 200
                THEN [title |-> suggest.data.title,
                      description |-> suggest.data.description,
                      days |-> <<GetDay(app.clock)>>,
                      times |-> <<IsoHHMM(app.clock + MinPerHour * SecPerMin)>>]
                ELSE @]
    /\ suggested' = IF reply = "rejected" THEN suggested ELSE suggested \cup {FileName}
    /\ UNCHANGED schedulerVars

\* openScheduleModal: the request is rejected, or the route answers for one of
\* the outcomes of the generative call; the form is filled from the answer or,
\* in the catch, from the file's name. The modal covers the page while open.
OpenScheduleModal(reply) ==
    /\ ~app.isModalOpen /\ ~app.loading
    /\ LET suggest == IF reply = "rejected" THEN NoResponse ELSE SuggestRoute(FileName, reply)
       IN app' = [app EXCEPT
            !.isModalOpen = TRUE,
            !.suggest = suggest,
            !.formData = IF suggest.status = 200
                THEN [title |-> suggest.data.title,
                      description |-> suggest.data.description,
                      days |-> <<GetDay(app.clock)>>,
                      times |-> <<IsoHHMM(app.clock + MinPerHour * SecPerMin)>>]
                ELSE [title |-> FileName, description |-> "",
                      days |-> << >>, times |-> <<DefaultTime>>]]
    /\ suggested' = IF reply = "rejected" THEN suggested ELSE suggested \cup {FileName}
    /\ UNCHANGED schedulerVars

\* toggleDay
ToggleDay(dayId) ==
    /\ app.isModalOpen /\ ~app.loading
    /\ Includes(app.formData.days, dayId) \/ Len(app.formData.days) < MaxDays
    /\ app' = [app EXCEPT !.formData.days =
            IF Includes(@, dayId) THEN SelectSeq(@, LAMBDA d : d # dayId) ELSE Append(@, dayId)]
    /\ UNCHANGED serverVars

\* addTime
AddTime ==
    /\ app.isModalOpen /\ ~app.loading
    /\ Len(app.formData.times) < MaxTimes
    /\ app' = [app EXCEPT !.formData.times = Append(@, DefaultTime)]
    /\ UNCHANGED serverVars

\* removeTime: its button is rendered only while the list holds two or more
RemoveTime(idx) ==
    /\ app.isModalOpen /\ ~app.loading
    /\ Len(app.formData.times) > 1
    /\ idx \in 1..Len(app.formData.times)
    /\ app' = [app EXCEPT !.formData.times = RemoveAt(@, idx)]
    /\ UNCHANGED serverVars

\* updateTime
UpdateTime(idx, val) ==
    /\ app.isModalOpen /\ ~app.loading
    /\ idx \in 1..Len(app.formData.times)
    /\ app' = [app EXCEPT !.formData.times[idx] = val]
    /\ UNCHANGED serverVars

\* submitSchedule without its two empty checks
SubmitScheduleUnchecked(later, k) ==
    /\ app.isModalOpen /\ ~app.loading
    /\ later \in Readings(app.clock)
    /\ app' = [app EXCEPT
            !.loading = TRUE,
            !.now = app.clock,
            !.dates = ReadsAt(app.clock, later, k),
            !.clock = later,
            !.schedules = BuildSchedules(app.formData.days, app.formData.times,
                                         app.clock, ReadsAt(app.clock, later, k))]
    /\ UNCHANGED serverVars

\* submitSchedule up to the await of the POST: the empty checks, then the
\* request list. later and k say what the iterations' own new Date() read.
SubmitSchedule(later, k) ==
    /\ app.isModalOpen /\ ~app.loading
    /\ later \in Readings(app.clock)
    /\ app' =
        IF Len(app.formData.days) = 0
        THEN [app EXCEPT !.toast = "Select at least one day"]
        ELSE IF Len(app.formData.times) = 0
        THEN [app EXCEPT !.toast = "Add at least one time"]
        ELSE [app EXCEPT
                !.loading = TRUE,
                !.now = app.clock,
                !.dates = ReadsAt(app.clock, later, k),
                !.clock = later,
                !.schedules = BuildSchedules(app.formData.days, app.formData.times,
                                             app.clock, ReadsAt(app.clock, later, k))]
    /\ UNCHANGED serverVars

\* submitSchedule after the await: the POST resolved (ok) or rejected
PostBulk(ok) ==
    /\ app.loading
    /\ app' = [app EXCEPT
            !.loading = FALSE,
            !.schedules = << >>,
            !.now = NaN,
            !.dates = << >>,
            !.isModalOpen = IF ok THEN FALSE ELSE @,
            !.toast = IF ok THEN "Successfully scheduled" ELSE "Bulk scheduling failed"]
    /\ UNCHANGED serverVars

ExpandNext ==
    \/ ClientAdvance
    \/ \E reply \in Replies : OpenScheduleModal(reply)
    \/ \E dayId \in DayInputs : ToggleDay(dayId)
    \/ AddTime
    \/ \E idx \in 1..MaxTimes : RemoveTime(idx)
    \/ \E idx \in 1..MaxTimes, val \in TimeInputs : UpdateTime(idx, val)
    \/ \E later \in ClockValues, k \in 0..(MaxDays * MaxTimes) : SubmitSchedule(later, k)
    \/ \E ok \in BOOLEAN : PostBulk(ok)

ExpandSpec == Init /\ [][ExpandNext]_vars

\* The scheduling form together with the poller (one callback in flight): the
\* form is opened, today's weekday toggled and the form sent while jobs are
\* executed.
SuggestNext ==
    \/ \E reply \in Replies : OpenScheduleModal(reply)
    \/ ToggleDay(GetDay(app.clock))
    \/ SubmitSchedule(app.clock, 0)
    \/ \E ok \in BOOLEAN : PostBulk(ok)
    \/ \E tm \in Times : Schedule(tm)
    \/ Advance
    \/ InitSync
    \/ InitUpdate
    \/ TickFindActive(1)
    \/ TickFindNext(1)
    \/ TickSaveUploading(1)
    \/ TickProcessUpload(1)
    \/ TickSaveFinal(1)

SuggestSpec == Init /\ [][SuggestNext]_vars

\* ---- the create routes with any request body

\* A field the request body does not carry.
Unset == "unset"
ForgedId == YoutubeIdOf(MaxJobs, MaxTicks) + 1
ForgedError == "forged"

\* The bodies a client may send for one schedule: a scheduledTime, and any of
\* status, youtubeId and error.
Bodies ==
    [scheduledTime : Times,
     status : {Unset, "Pending", "Uploading", "Done", "Failed"},
     youtubeId : {NoId, ForgedId},
     error : {Unset, ForgedError}]

\* Video.create / Video.bulkCreate of the given attributes: the model's
\* defaults fill what is not given (status 'Pending', the others null).
CreateRow(attrs) ==
    [status |-> IF attrs.status = Unset THEN "Pending" ELSE attrs.status,
     scheduledTime |-> attrs.scheduledTime,
     youtubeId |-> attrs.youtubeId,
     error |-> IF attrs.error = Unset THEN NULL ELSE attrs.error]

\* POST /api/schedule: the handler passes on the fields it destructures, which
\* do not include status, youtubeId or error.
PostSchedule(body) ==
    /\ NextId(videos) <= MaxJobs
    /\ videos' = [videos EXCEPT ![NextId(videos)] =
            CreateRow([scheduledTime |-> body.scheduledTime, status |-> Unset,
                       youtubeId |-> NoId, error |-> Unset])]
    /\ UNCHANGED <<now, initPc, ticks, restarts, faults, called, app, suggested, favorites, favRes>>

\* POST /api/schedule/bulk: each element is spread into the attributes
RECURSIVE BulkCreate(_, _)
BulkCreate(v, schedules) ==
    IF schedules = << >> THEN v
    ELSE BulkCreate([v EXCEPT ![NextId(v)] = CreateRow(Head(schedules))], Tail(schedules))

PostScheduleBulk(schedules) ==
    /\ NextId(videos) + Len(schedules) - 1 <= MaxJobs
    /\ videos' = BulkCreate(videos, schedules)
    /\ UNCHANGED <<now, initPc, ticks, restarts, faults, called, app, suggested, favorites, favRes>>

ApiNext ==
    \/ \E body \in Bodies : PostSchedule(body)
    \/ \E b1 \in Bodies : PostScheduleBulk(<<b1>>)
    \/ \E b1, b2 \in Bodies : PostScheduleBulk(<<b1, b2>>)
    \/ \E j \in JobIds : DeleteJob(j)

ApiSpec == Init /\ [][ApiNext]_vars

\* ---- favorites (the Favorite model, its routes, toggleFavorite of App.jsx)

\* A Favorite row; a request body without driveFileId leaves the column NULL.
FavoriteRow(driveFileId) == [driveFileId |-> driveFileId]

IsFavorite(rows, driveFileId) ==
    \E i \in 1..Len(rows) : rows[i].driveFileId = driveFileId

\* (mutant) the table without the unique index on driveFileId
CreateFavoriteNoIndex(rows, driveFileId, ok) ==
    IF ok THEN [rows |-> Append(rows, FavoriteRow(driveFileId)), status |-> 200]
    ELSE [rows |-> rows, status |-> 500]

\* Favorite.create inside the route's try/catch: the unique index on
\* driveFileId rejects a second row with the same value (NULLs never conflict),
\* and a rejected insert of either kind is answered with status 500.
CreateFavorite(rows, driveFileId, ok) ==
    IF ok /\ ~(driveFileId # NULL /\ IsFavorite(rows, driveFileId))
    THEN [rows |-> Append(rows, FavoriteRow(driveFileId)), status |-> 200]
    ELSE [rows |-> rows, status |-> 500]

\* Favorite.destroy({ where: { driveFileId } }) inside the route's try/catch.
DestroyFavorite(rows, driveFileId, ok) ==
    IF ok THEN [rows |-> SelectSeq(rows, LAMBDA r : r.driveFileId # driveFileId),
                status |-> 200]
    ELSE [rows |-> rows, status |-> 500]

Answer(op, driveFileId, status) ==
    [n |-> favRes.n + 1, op |-> op, id |-> driveFileId, status |-> status]

\* POST /api/favorites
PostFavorite(driveFileId, ok) ==
    /\ favRes.n < MaxRequests
    /\ LET out == CreateFavorite(favorites, driveFileId, ok)
       IN  /\ favorites' = out.rows
           /\ favRes' = Answer("add", driveFileId, out.status)
    /\ UNCHANGED <<videos, now, initPc, ticks, restarts, faults, called, app, suggested>>

\* DELETE /api/favorites/:driveFileId
DeleteFavorite(driveFileId, ok) ==
    /\ favRes.n < MaxRequests
    /\ LET out == DestroyFavorite(favorites, driveFileId, ok)
       IN  /\ favorites' = out.rows
           /\ favRes' = Answer("remove", driveFileId, out.status)
    /\ UNCHANGED <<videos, now, initPc, ticks, restarts, faults, called, app, suggested>>

\* fetchFavorites: GET /api/favorites and setFavorites
FetchFavorites ==
    /\ app' = [app EXCEPT !.favorites = favorites]
    /\ UNCHANGED <<videos, now, initPc, ticks, restarts, faults, called, suggested,
                   favorites, favRes>>

\* toggleFavorite(file): the star of a library file; it removes or adds by the
\* list the client last fetched, and toasts by the response.
ToggleFavorite(file, ok) ==
    /\ favRes.n < MaxRequests
    /\ LET isFav == IsFavorite(app.favorites, file)
           out == IF isFav THEN DestroyFavorite(favorites, file, ok)
                  ELSE CreateFavorite(favorites, file, ok)
       IN  /\ favorites' = out.rows
           /\ favRes' = Answer(IF isFav THEN "remove" ELSE "add", file, out.status)
           /\ app' = [app EXCEPT !.toast =
                        IF out.status # 200 THEN "Favorite action failed"
                        ELSE IF isFav THEN "Removed from favorites"
                        ELSE "Added to favorites"]
    /\ UNCHANGED <<videos, now, initPc, ticks, restarts, faults, called, suggested>>

FavNext ==
    \/ \E id \in FileIds \cup {NULL} : \E ok \in BOOLEAN : PostFavorite(id, ok)
    \/ \E id \in FileIds : \E ok \in BOOLEAN : DeleteFavorite(id, ok)
    \/ FetchFavorites
    \/ \E file \in FileIds : \E ok \in BOOLEAN : ToggleFavorite(file, ok)
    \/ \E tm \in Times : Schedule(tm)

FavSpec == Init /\ [][FavNext]_vars

\* ---- claims

\* C1: in every reachable state at most one Job has status Uploading.
C1_AtMostOneUploading ==
    Cardinality({j \in JobIds : videos[j].status = "Uploading"}) <= 1

\* C2: at most one call to processUpload is outstanding at any time.
C2_SingleOutstandingUpload ==
    Cardinality({t \in Ticks : ticks[t].pc = "processUpload"}) <= 1

\* C3: no callback is past its first store query unless the recovery update of
\* this process start has completed.
C3_RecoveryBeforeFirstTick ==
    \A t \in Ticks : ticks[t].pc # "idle" => initPc = "done"

\* C4: the recovery update turns every Uploading row into a Pending row carrying
\* the fixed diagnostic, leaves no row Uploading, and each such row is then in the
\* set the next-job query selects from as soon as it is due.
C4_RecoveryResets ==
    [][(initPc = "update" /\ initPc' = "done") =>
        /\ \A j \in JobIds : videos'[j].status # "Uploading"
        /\ \A j \in JobIds : videos[j].status = "Uploading" =>
             /\ videos'[j].status = "Pending"
             /\ videos'[j].error = RestartError
             /\ videos'[j].error # NULL
             /\ videos'[j].scheduledTime = videos[j].scheduledTime
             /\ \A tm \in Times : videos'[j].scheduledTime <= tm => j \in DuePending(videos', tm)]_vars

\* C4 witness: after a restart the recovery has reset a stuck row.
C4_Witness ==
    /\ restarts > 0
    /\ initPc = "done"
    /\ \E j \in JobIds : videos[j].status = "Pending" /\ videos[j].error = RestartError

\* C5: a row found Uploading at a process start after a crash is eventually reset.
C5_StaleRowEventuallyReset ==
    \A j \in JobIds :
        (restarts > 0 /\ initPc = "sync" /\ videos[j].status = "Uploading")
            ~> (videos[j].status # "Uploading")

\* C6: every Pending job that is due and is not deleted eventually reaches Done
\* or Failed.
C6_DueJobEventuallyTerminal ==
    \A j \in JobIds :
        (videos[j].status = "Pending" /\ videos[j].scheduledTime <= now)
            ~> (videos[j].status \in {"Done", "Failed", "Deleted"})

\* The step in which slot t selects a job, the one in which its save of
\* Uploading resolves and processUpload is called, and the one in which its
\* callback ends after the upload (its final save resolved or rejected).
Selects(t) == ticks[t].pc = "findNext" /\ ticks'[t].pc = "saveUploading"
Marks(t) == ticks[t].pc = "saveUploading" /\ ticks'[t].pc = "processUpload"
Finishes(t) ==
    /\ ticks[t].pc = "notify"
    /\ ticks'[t].pc = "idle"
    /\ restarts' = restarts

\* C7: the job a tick selects has the smallest scheduledTime among all Jobs that
\* are Pending and due at the moment of selection.
C7_SelectsEarliestDue ==
    [][\A t \in Ticks : Selects(t) =>
        /\ videos[ticks'[t].id].status = "Pending"
        /\ videos[ticks'[t].id].scheduledTime <= now
        /\ \A k \in JobIds :
             (videos[k].status = "Pending" /\ videos[k].scheduledTime <= now)
                => videos[ticks'[t].id].scheduledTime <= videos[k].scheduledTime]_vars

\* C7 witness: a tick has selected a job while a later-scheduled job was due too.
C7_Witness ==
    \E t \in Ticks : \E k \in JobIds :
        /\ ticks[t].pc = "saveUploading"
        /\ videos[ticks[t].id].status = "Pending"
        /\ videos[k].status = "Pending"
        /\ videos[k].scheduledTime <= now
        /\ videos[k].scheduledTime > ticks[t].scheduledTime

\* C8: a job is selected only while Pending and due, and no row becomes
\* Uploading and no job is handed to processUpload while its scheduledTime is
\* later than the current time.
C8_OnlyDueJobsStart ==
    [][/\ \A t \in Ticks : Selects(t) =>
            /\ videos[ticks'[t].id].status = "Pending"
            /\ videos[ticks'[t].id].scheduledTime <= now
       /\ \A j \in JobIds :
            (videos[j].status # "Uploading" /\ videos'[j].status = "Uploading")
                => videos'[j].scheduledTime <= now'
       /\ \A t \in Ticks : Marks(t) => ticks'[t].scheduledTime <= now']_vars

\* C8 witness: an upload is running for a due job while another Pending job,
\* scheduled later than now, was left alone.
C8_Witness ==
    \E t \in Ticks : \E k \in JobIds :
        /\ ticks[t].pc = "processUpload"
        /\ videos[ticks[t].id].status = "Uploading"
        /\ videos[k].status = "Pending"
        /\ videos[k].scheduledTime > now

\* C9: when processUpload is called for a job its row is stored as Uploading,
\* and the marking is atomic with the check: no row is Uploading when a tick
\* marks its job.
C9_MarkAtomicWithCheck ==
    [][\A t \in Ticks : Marks(t) =>
        /\ videos'[ticks[t].id].status \in {"Uploading", "Deleted"}
        /\ \A j \in JobIds : videos[j].status # "Uploading"]_vars

\* C10: when processUpload returned an id for a job, the callback ends with the
\* stored row Done, carrying that id and a null error.
C10_SuccessStoredAsDone ==
    [][\A t \in Ticks :
        (Finishes(t) /\ ticks[t].status = "Done" /\ videos'[ticks[t].id].status # "Deleted") =>
            /\ videos'[ticks[t].id].status = "Done"
            /\ videos'[ticks[t].id].youtubeId = ticks[t].youtubeId
            /\ videos'[ticks[t].id].error = NULL]_vars

\* C11: when processUpload threw for a job, the callback ends with the stored
\* row Failed, carrying the thrown message, and a Failed row is never made
\* Pending or Uploading again (no retry, no re-queue).
C11_FailureStoredAndNeverRetried ==
    [][/\ \A t \in Ticks :
            (Finishes(t) /\ ticks[t].status = "Failed" /\ videos'[ticks[t].id].status # "Deleted") =>
                /\ videos'[ticks[t].id].status = "Failed"
                /\ videos'[ticks[t].id].error = ticks[t].error
       /\ \A j \in JobIds : videos[j].status = "Failed" => videos'[j].status = "Failed"]_vars

\* C12: once a row is Done or Failed no step changes its status, youtubeId or
\* error, or removes it.
C12_TerminalRowsFrozen ==
    [][\A j \in JobIds : videos[j].status \in {"Done", "Failed"} => videos'[j] = videos[j]]_vars

\* C13: processUpload is never called for a job it was called for before.
C13_AdapterCalledOncePerJob ==
    [][\A t \in Ticks : Marks(t) => ticks[t].id \notin called]_vars

C15_DeletedJobNeverUploaded ==
    [][\A t \in Ticks : Marks(t) => videos[ticks[t].id].status # "Deleted"]_vars

\* C16: while a row is Uploading a callback that starts goes no further than
\* its first query: it selects nothing, writes nothing and calls nothing.
C16_TickBehindUploadDoesNothing ==
    [][(\E j \in JobIds : videos[j].status = "Uploading") =>
        \A t \in Ticks : ticks[t].pc = "idle" => ticks'[t] = ticks[t]]_vars

\* C16 witness: a row is Uploading, a due Pending job waits and a callback slot
\* is free to start.
C16_Witness ==
    /\ \E j \in JobIds : videos[j].status = "Uploading"
    /\ \E k \in JobIds : videos[k].status = "Pending" /\ videos[k].scheduledTime <= now
    /\ \E t \in Ticks : ticks[t].pc = "idle"

\* C17: when a store call of a callback rejects, the callback ends with its
\* job's row as it was before the tick (Pending, or removed by the user since).
C17_FaultLeavesRowsUntouched ==
    [][\A t \in Ticks :
        (faults' = faults + 1 /\ ticks[t].pc # "idle" /\ ticks'[t].pc = "idle" /\ ticks[t].id # 0) =>
            videos'[ticks[t].id].status \in {"Pending", "Deleted"}]_vars

\* C18: whether or not the notification is delivered, the final save stores the
\* outcome of the upload: the row becomes what the save of the instance writes,
\* and a succeeded upload is stored as Done.
C18_NotificationNeverAffectsState ==
    [][\A t \in Ticks :
        (Finishes(t) /\ faults' = faults /\ Exists(videos, ticks[t].id)) =>
            /\ videos'[ticks[t].id] = FinalWrite(videos[ticks[t].id], ticks[t])
            /\ videos'[ticks[t].id].status = ticks[t].status
            /\ ticks[t].status = "Done" => videos'[ticks[t].id].status = "Done"]_vars

\* C18 witness: a callback has ended after its notification and final save, and
\* the row holds the upload's outcome.
C18_Witness ==
    /\ \A t \in Ticks : ticks[t].pc = "idle"
    /\ \E j \in JobIds : videos[j].status = "Done" /\ videos[j].youtubeId # NoId
    /\ \E j \in JobIds : videos[j].status = "Failed" /\ videos[j].error = UploadError

\* C19: when the notification for an outcome is invoked, that outcome is
\* already the stored status of the job.
C19_NotifyAfterCommit ==
    \A t \in Ticks :
        (ticks[t].pc = "notify" /\ Exists(videos, ticks[t].id)) =>
            videos[ticks[t].id].status = ticks[t].status

\* C20: for a form with at least one day and one time, submitSchedule builds
\* one request per (day, time) pair, |days| x |times| in all, and every
\* request's scheduledTime is strictly after the instant now of the run.
C20_OneFutureRequestPerPair ==
    (app.loading /\ Len(app.formData.days) >= 1 /\ Len(app.formData.times) >= 1) =>
        /\ Len(app.schedules) = Len(app.formData.days) * Len(app.formData.times)
        /\ \A i \in 1..Len(app.schedules) : DateGt(app.schedules[i].scheduledTime, app.now)

\* The (day, time) pair the i-th request of the list was built for, and the
\* hour and minute an HH:MM string names.
PairDay(i) == app.formData.days[((i - 1) \div Len(app.formData.times)) + 1]
PairTime(i) == app.formData.times[((i - 1) % Len(app.formData.times)) + 1]
IsHHMM(s) == Len(s) = 5 /\ s[3] = ":" /\ \A p \in {1, 2, 4, 5} : IsDigit(s[p])
HourOf(s) == 10 * DigitVal(s[1]) + DigitVal(s[2])
MinuteOf(s) == 10 * DigitVal(s[4]) + DigitVal(s[5])

\* C21: the scheduledTime built for a pair (day, HH:MM) falls on that weekday at
\* HH:MM:00 and is the earliest such instant strictly after now: it is after
\* now, and the same time a week earlier is not.
C21_NextOccurrenceOfPair ==
    app.loading =>
        \A i \in 1..Len(app.schedules) :
            IsHHMM(PairTime(i)) =>
                LET st == app.schedules[i].scheduledTime
                IN /\ st # NaN
                   /\ GetDay(st) = PairDay(i)
                   /\ st % SecPerDay = (HourOf(PairTime(i)) * MinPerHour + MinuteOf(PairTime(i))) * SecPerMin
                   /\ st > app.now
                   /\ st - DaysPerWeek * SecPerDay <= app.now

C23_EmptySelectionRejected ==
    [][(~app.loading /\ (Len(app.formData.days) = 0 \/ Len(app.formData.times) = 0)) =>
        /\ ~app'.loading
        /\ app'.schedules = << >>
        /\ videos' = videos
        /\ app'.toast # app.toast =>
                app'.toast \in {"Select at least one day", "Add at least one time"}]_vars

\* C23 witness: the open form holds no day and the submit was rejected.
C23_Witness ==
    /\ app.isModalOpen /\ ~app.loading
    /\ Len(app.formData.days) = 0
    /\ app.toast = "Select at least one day"
    /\ app.schedules = << >>

C25_SuggestionFailureDoesNotBlock ==
    [][/\ (~app.isModalOpen /\ app'.isModalOpen /\ app'.suggest.status # 200) =>
            /\ app'.formData.title = FileName
            /\ app'.formData.description = ""
            /\ ~app'.loading
       /\ ticks' # ticks => suggested' = suggested]_vars

\* C25 witness: the form was opened on a failed suggestion request, and the
\* poller has executed a job.
C25_Witness ==
    /\ app.isModalOpen /\ ~app.loading
    /\ app.suggest.status = 0
    /\ app.formData.title = FileName /\ app.formData.description = ""
    /\ \E j \in JobIds : videos[j].status \in {"Done", "Failed"}

\* C26: the recovery update is idempotent: run again on the table it leaves it
\* changes nothing, and run on a table with no Uploading row it changes no row.
C26_RecoveryIdempotent ==
    [][(initPc = "update" /\ initPc' = "done") =>
        /\ ResetStuck(videos') = videos'
        /\ (\A j \in JobIds : videos[j].status # "Uploading") => videos' = videos]_vars

\* C26 witness: the recovery of a restarted process has run over a table with a
\* stuck row, which it reset, and a Pending row, which it left alone.
C26_Witness ==
    /\ restarts > 0
    /\ initPc = "done"
    /\ \E j, k \in JobIds :
            /\ videos[j].status = "Pending" /\ videos[j].error = RestartError
            /\ videos[k].status = "Pending" /\ videos[k].error = NULL

\* C27: a stored row has a youtubeId only when it is Done, and an error only
\* when it is Failed or when the recovery reset it and it has not succeeded
\* since (it is Pending or Uploading and carries the recovery's diagnostic).
C27_IdOnlyOnDoneErrorOnlyOnFailure ==
    \A j \in JobIds :
        Exists(videos, j) =>
            /\ videos[j].youtubeId # NoId => videos[j].status = "Done"
            /\ videos[j].error # NULL =>
                    \/ videos[j].status = "Failed"
                    \/ /\ videos[j].error = RestartError
                       /\ videos[j].status \in {"Pending", "Uploading"}

\* C28: a stored row changes status only from Pending to Uploading in the step
\* in which a callback marks it, from Uploading to Done or Failed in the final
\* save of a callback that holds it, and from Uploading to Pending in the
\* recovery update.
C28_OnlyLegalStatusChanges ==
    [][\A j \in JobIds :
        (Exists(videos, j) /\ Exists(videos', j) /\ videos'[j].status # videos[j].status) =>
            \/ /\ videos[j].status = "Pending" /\ videos'[j].status = "Uploading"
               /\ \E t \in Ticks : Marks(t) /\ ticks[t].id = j
            \/ /\ videos[j].status = "Uploading" /\ videos'[j].status \in {"Done", "Failed"}
               /\ \E t \in Ticks : Finishes(t) /\ ticks[t].id = j
            \/ /\ videos[j].status = "Uploading" /\ videos'[j].status = "Pending"
               /\ initPc = "update" /\ initPc' = "done"]_vars

\* C29: while a call of processUpload is outstanding, its job's row exists with
\* status Uploading, and no other row is Uploading.
C29_InFlightJobIsTheUploadingRow ==
    \A t \in Ticks :
        ticks[t].pc = "processUpload" =>
            /\ videos[ticks[t].id].status = "Uploading"
            /\ \A k \in JobIds : videos[k].status = "Uploading" => k = ticks[t].id

\* C30: a row created by either create route starts Pending with no youtubeId
\* and no error, whatever the request body carries.
C30_CreatedRowsStartPending ==
    [][\A j \in JobIds :
        (videos[j].status = "Absent" /\ videos'[j].status # "Absent") =>
            /\ videos'[j].status = "Pending"
            /\ videos'[j].youtubeId = NoId
            /\ videos'[j].error = NULL]_vars

\* C31: when getStoredTokens returns null, processUpload throws the 'No tokens
\* found' error having made no Drive or YouTube call, and the callback that ran
\* it ends with the job's row Failed and that message as its error (the row is
\* neither left Uploading nor back to Pending).
C31_NoTokensJobEndsFailed ==
    [][\A t \in Ticks :
          /\ \A run \in Runs :
                (~run.tokens /\ UploadStep(t, run))
                    => /\ ticks'[t].status = "Failed"
                       /\ ticks'[t].error = NoTokensError
                       /\ ticks'[t].calls = << >>
          /\ (/\ ticks[t].pc = "notify"
              /\ ticks[t].error = NoTokensError
              /\ ticks'[t].pc = "idle"
              /\ Exists(videos', ticks[t].id))
                => /\ videos'[ticks[t].id].status = "Failed"
                   /\ videos'[ticks[t].id].error = NoTokensError]_vars

\* C32: processUpload throws exactly when a step up to the video insert fails;
\* once the insert has succeeded it returns the video id whatever the thumbnail
\* and first-comment steps do, and the callback that ran it ends with the job's
\* row Done with that id.
C32_LateStepFailuresKeepJobDone ==
    [][\A t \in Ticks :
          /\ \A run \in Runs :
                UploadStep(t, run)
                    => LET early == \/ ~run.tokens
                                    \/ run.download = "fails"
                                    \/ run.tags = "other"
                                    \/ run.insert = "fails"
                       IN  /\ early <=> ticks'[t].status = "Failed"
                           /\ ~early => /\ ticks'[t].status = "Done"
                                         /\ ticks'[t].youtubeId = YoutubeIdOf(ticks[t].id, t)
          /\ (/\ ticks[t].pc = "notify"
              /\ ticks[t].status = "Done"
              /\ ticks'[t].pc = "idle"
              /\ Exists(videos', ticks[t].id))
                => /\ videos'[ticks[t].id].status = "Done"
                   /\ videos'[ticks[t].id].youtubeId = ticks[t].youtubeId]_vars

\* C33: the Favorite table never holds two rows with the same driveFileId; a
\* request to add a file that is already a favorite is answered with an error
\* and leaves the Favorite rows as they were; and a step that handles a
\* favorite request leaves every Video row as it was.
C33_FavoritesUniqueAndApart ==
    /\ [](\A i, j \in 1..Len(favorites) :
            (i # j /\ favorites[i].driveFileId # NULL)
                => favorites[i].driveFileId # favorites[j].driveFileId)
    /\ [][(/\ favRes'.n # favRes.n
           /\ favRes'.op = "add"
           /\ favRes'.id # NULL
           /\ IsFavorite(favorites, favRes'.id))
              => favorites' = favorites /\ favRes'.status = 500]_vars
    /\ [][favRes'.n # favRes.n => videos' = videos]_vars

\* A file that is a favorite was added again, the request was answered with an
\* error, and the table holds Video rows beside it.
C33_Witness ==
    /\ favRes.op = "add"
    /\ favRes.status = 500
    /\ favRes.id \in FileIds
    /\ Len(SelectSeq(favorites, LAMBDA r : r.driveFileId = favRes.id)) = 1
    /\ app.toast = "Favorite action failed"
    /\ \E j \in JobIds : Exists(videos, j)

====
